---- MODULE Spec2Model ----
(***************************************************************************)
(* Model of the cloud sync reporter (package reporter): the session        *)
(* registry syncSessionPool, the bounded work queue, the worker pool and   *)
(* the Finish drain / shutdown protocol.                                   *)
(*                                                                         *)
(* Goroutines are modelled by their positions:                             *)
(*   - callers of AddManifest (caller[c].pc),                              *)
(*   - the goroutine that calls Finish (finPc),                            *)
(*   - the pool of syncReportWorker goroutines.  The workers run the same  *)
(*     code and hold no private state besides the package they process,    *)
(*     so the pool is kept as counts: `workers` launched, `exited`         *)
(*     returned, one busy worker per package whose stage is "dequeued" or  *)
(*     "publishing", the rest blocked in the select.                       *)
(***************************************************************************)
EXTENDS Integers, Sequences, FiniteSets, TLC

\* ---------------------------------------------------------------- bounds
\* Number of packages the callers submit in one run.
MaxRecords == 2
\* Capacity of workQueue (1000 in NewSyncReporter), scaled down so that
\* submitting more records than the capacity happens.
QueueCap == 1
\* Number of times Finish is called.
MaxFinishCalls == 2

\* ------------------------------------------------------------- constants
syncReporterDefaultWorkerCount == 10

\* Values of SyncReporterConfig.WorkerCount tried: negative, unset, set.
WorkerCounts == {-1, 0, 1, 2}

Callers == {"c1"}

\* Manifest paths of the packages (pkg.Manifest.Path), the routing keys.
Manifests == {"m1", "m2"}
Wildcard == "*"
\* Strings usable as a key of syncSessions.
Keys == Manifests \cup {Wildcard}

\* The session created for a logical scope (the whole run for "*", one
\* manifest otherwise): its id together with the client bound to it.
SessionOf(k) ==
  CASE k = "*"  -> [sessionId |-> "s0", toolServiceClient |-> "cl0"]
    [] k = "m1" -> [sessionId |-> "s1", toolServiceClient |-> "cl1"]
    [] k = "m2" -> [sessionId |-> "s2", toolServiceClient |-> "cl2"]

\* syncSession values.
Sessions == { SessionOf(k) : k \in Keys }

None == "none"
\* The nil error; an error is a non-empty tuple.
Nil == << >>
NoSession == [sessionId |-> None, toolServiceClient |-> None]

VARIABLES
  config,        \* SyncReporterConfig: EnableMultiProjectSync, WorkerCount
  syncSessions,  \* syncSessionPool.syncSessions: key -> syncSession
  pkgs,          \* the packages passed to queuePackage, in wg.Add order
  caller,        \* position of each AddManifest caller
  pending,       \* counter of s.wg
  incs, decs,    \* number of wg.Add(1) and of wg.Done() calls so far
  workQueue,     \* s.workQueue: buffered channel, sequence of indices of pkgs
  done,          \* TRUE once s.done is closed
  workers,       \* goroutines launched by startWorkers
  exited,        \* workers that returned from syncReportWorker
  finPc,         \* position of the goroutine that calls Finish
  finKeys,       \* keys forEach has still to visit
  completeCalls, \* CompleteToolSession calls issued, in order
  finErr,        \* value returned by the last Finish call
  finCalls,      \* number of Finish calls started
  drainMark,     \* Len(pkgs) when wg.Wait of Finish last returned
  lateSubmit,    \* a submit overlapped or followed a call of Finish
  lookup,        \* result of the last direct call of getSession
  panicked,      \* the process died of a runtime panic
  pkg,           \* the package whose request syncPackage builds
  req,           \* the PublishPackageInsightRequest under construction
  trPc,          \* position of syncPackage in the construction of req
  sent,          \* requests passed to PublishPackageInsight for pkg
  ret,           \* value returned by syncPackage for pkg
  mu,            \* syncSessionPool.mu: the RWMutex of the registry
  gor,           \* goroutines calling registry operations: their positions
  RequestEditors,\* Client.RequestEditors of the generated HTTP client
  httpCall       \* the call of a client method in progress

vars == << config, syncSessions, pkgs, caller, pending, incs, decs,
           workQueue, done, workers, exited, finPc, finKeys, completeCalls,
           finErr, finCalls, drainMark, lateSubmit, lookup, panicked,
           pkg, req, trPc, sent, ret, mu, gor, RequestEditors, httpCall >>

\* The variables of the construction of the request.
trVars == << pkg, req, trPc, sent, ret >>
\* The variables of the lock of the registry.
lockVars == << mu, gor >>
\* The variables of the generated HTTP client.
clientVars == << RequestEditors, httpCall >>

\* ----------------------------------------------------- values of a package
\* A Go pointer is the empty tuple (nil) or a one-element tuple; a string is
\* the sequence of its characters.
NilPtr == << >>
Ptr(v) == << v >>
EmptyString == << >>

\* utils.SafelyGetValue: the value pointed to, the zero value of the type
\* for a nil pointer.
SafelyGetValue(target, zero) == IF Len(target) = 0 THEN zero ELSE target[1]

\* Zero value of the insights of a package: every field nil.
ZeroInsights == [Vulnerabilities |-> NilPtr, Projects |-> NilPtr, Licenses |-> NilPtr]
\* Before syncPackage builds anything.  NonNil names the lists of the
\* request that are non-nil slices.
NoRequest ==
  [ToolSessionId |-> "none", Namespace |-> "none", Name |-> << >>, Version |-> << >>,
   Dependencies |-> << >>, Vulnerabilities |-> << >>, ProjectInsights |-> << >>,
   Licenses |-> << >>, NonNil |-> {}]
\* The result of pkg.GetDependencies(): an error or a list of packages.
NoDependencies == [err |-> FALSE, list |-> << >>]
\* A package with name and version and nothing else.
ZeroPackage ==
  [Path |-> "m1", Name |-> << "p" >>, Version |-> << "1" >>, Insights |-> NilPtr,
   Dependencies |-> NoDependencies]

\* ------------------------------------------------- goroutines and calls
\* Goroutines that call operations of the registry concurrently.
Goroutines == {"g1", "g2", "g3"}

\* The RWMutex unlocked: no writer, no reader, no goroutine waiting in Lock.
FreeMutex == [writer |-> "none", readers |-> {}, pending |-> {}]

\* A goroutine outside the registry that has completed n operations.
IdleGoroutine(n) ==
  [pc |-> "idle", op |-> "none", key |-> "none", left |-> {}, ok |-> TRUE, n |-> n]

\* No client method is being called.
NoCall == [pc |-> "idle", additionalEditors |-> << >>, applied |-> << >>,
           err |-> << >>, sent |-> 0]

\* ------------------------------------------------------- syncSessionPool

\* addPrimarySession: s.syncSessions["*"] = session
addPrimarySession(reg, session) ==
  [k \in DOMAIN reg \cup {Wildcard} |->
     IF k = Wildcard THEN session ELSE reg[k]]

\* addKeyedSession: s.syncSessions[key] = session
addKeyedSession(reg, key, session) ==
  [k \in DOMAIN reg \cup {key} |-> IF k = key THEN session ELSE reg[k]]

\* getSession with the lookups in the opposite order (exact key first).
getSession_KeyFirst(reg, key) ==
  IF key \in DOMAIN reg THEN [ok |-> TRUE, session |-> reg[key]]
  ELSE IF Wildcard \in DOMAIN reg
       THEN [ok |-> TRUE, session |-> reg[Wildcard]]
       ELSE [ok |-> FALSE, session |-> NoSession]

\* getSession falling back to some installed session for an unknown key.
getSession_Default(reg, key) ==
  IF Wildcard \in DOMAIN reg THEN [ok |-> TRUE, session |-> reg[Wildcard]]
  ELSE IF key \in DOMAIN reg THEN [ok |-> TRUE, session |-> reg[key]]
       ELSE IF DOMAIN reg # {}
            THEN [ok |-> TRUE, session |-> reg[CHOOSE k \in DOMAIN reg : TRUE]]
            ELSE [ok |-> FALSE, session |-> NoSession]

\* getSession: the wildcard entry if present, else the entry of key, else
\* the "session not found" error.
getSession(reg, key) ==
  IF Wildcard \in DOMAIN reg THEN [ok |-> TRUE, session |-> reg[Wildcard]]
  ELSE IF key \in DOMAIN reg THEN [ok |-> TRUE, session |-> reg[key]]
       ELSE [ok |-> FALSE, session |-> NoSession]

\* forEach holds the read lock of the pool from its first line to its return.
ReadLockedByForEach == finPc = "forEach"

\* Sessions are created at startup: the registry is written before the first
\* package is submitted and before Finish is called, never afterwards.
Startup ==
  /\ pkgs = << >>
  /\ finCalls = 0
  /\ \A c \in DOMAIN caller : caller[c].pc = "idle"

\* ----------------------------------------------------------- NewSyncReporter

\* startWorkers without the default for an unset count.
startWorkers_NoDefault(workerCount) ==
  IF workerCount > 0 THEN workerCount ELSE 0

\* startWorkers: count defaults to syncReporterDefaultWorkerCount when 0;
\* the loop `for i := 0; i < count; i++` starts no worker for count < 0.
startWorkers(workerCount) ==
  LET count == IF workerCount = 0 THEN syncReporterDefaultWorkerCount
               ELSE workerCount
  IN IF count > 0 THEN count ELSE 0

EmptyPool == [k \in {} |-> NoSession]

\* State left by NewSyncReporter: the primary session is created and
\* installed unless EnableMultiProjectSync, the queue is empty, the workers
\* are started.
Init ==
  /\ config \in [EnableMultiProjectSync : BOOLEAN, WorkerCount : WorkerCounts]
  /\ syncSessions = IF ~config.EnableMultiProjectSync
                    THEN addPrimarySession(EmptyPool, SessionOf(Wildcard))
                    ELSE EmptyPool
  /\ pkgs = << >>
  /\ caller = [c \in Callers |-> [pc |-> "idle", path |-> None, rec |-> 0]]
  /\ pending = 0
  /\ incs = 0
  /\ decs = 0
  /\ workQueue = << >>
  /\ done = FALSE
  /\ workers = startWorkers(config.WorkerCount)
  /\ exited = 0
  /\ finPc = "idle"
  /\ finKeys = {}
  /\ completeCalls = << >>
  /\ finErr = Nil
  /\ finCalls = 0
  /\ drainMark = 0
  /\ lateSubmit = FALSE
  /\ lookup = [key |-> None, ok |-> FALSE, session |-> NoSession]
  /\ panicked = FALSE
  /\ pkg = ZeroPackage
  /\ req = NoRequest
  /\ trPc = "idle"
  /\ sent = << >>
  /\ ret = Nil
  /\ mu = FreeMutex
  /\ gor = [g \in Goroutines |-> IdleGoroutine(0)]
  /\ RequestEditors = << >>
  /\ httpCall = NoCall

\* ------------------------------------------------------- registry calls

\* A call of addPrimarySession (takes the write lock).
CallAddPrimarySession(s) ==
  /\ ~panicked
  /\ Startup
  /\ ~ReadLockedByForEach
  /\ syncSessions' = addPrimarySession(syncSessions, s)
  /\ syncSessions' # syncSessions
  /\ UNCHANGED << trVars, lockVars, clientVars, config, pkgs, caller, pending, incs, decs, workQueue, done,
                  workers, exited, finPc, finKeys, completeCalls, finErr,
                  finCalls, drainMark, lateSubmit, lookup, panicked >>

\* A call of addKeyedSession (takes the write lock).
CallAddKeyedSession(key, s) ==
  /\ ~panicked
  /\ Startup
  /\ ~ReadLockedByForEach
  /\ syncSessions' = addKeyedSession(syncSessions, key, s)
  /\ syncSessions' # syncSessions
  /\ UNCHANGED << trVars, lockVars, clientVars, config, pkgs, caller, pending, incs, decs, workQueue, done,
                  workers, exited, finPc, finKeys, completeCalls, finErr,
                  finCalls, drainMark, lateSubmit, lookup, panicked >>

regVars == << config, syncSessions, lookup >>
poolVars == << workers, exited >>
finRest == << finKeys, completeCalls, finErr, finCalls, drainMark >>
finVars == << finPc, finRest >>

\* ------------------------------------------------------------ WaitGroup
\* s.wg is a sync.WaitGroup.  Add and Done change the counter atomically.
\* Wait returns at once when it reads the counter as 0; else it registers as
\* a waiter and blocks, the Done that brings the counter to 0 wakes it, and
\* on waking it reads the counter again: it returns when that is still 0 and
\* panics ("WaitGroup is reused before previous Wait has returned") when an
\* Add got in between.

\* wg.Done(): decrement; a negative counter panics; reaching 0 wakes Finish
\* when it is blocked in Wait.
WaitGroupDone ==
  /\ pending' = pending - 1
  /\ decs' = decs + 1
  /\ panicked' = (pending - 1 < 0)
  /\ finPc' = IF finPc = "blocked" /\ pending = 1 THEN "woken" ELSE finPc

\* Records whose stage is one of stages.
InStage(stages) == { r \in 1..Len(pkgs) : pkgs[r].stage \in stages }

\* Workers blocked in the select of syncReportWorker.
IdleWorkers == workers - exited - Cardinality(InStage({"dequeued", "publishing"}))

\* ------------------------------------------- AddManifest / queuePackage

\* AddManifest is called with a manifest of path m; EnumPackages starts.
AddManifest(c, m) ==
  /\ ~panicked
  /\ caller[c].pc = "idle"
  /\ Len(pkgs) < MaxRecords
  /\ caller' = [caller EXCEPT ![c] = [pc |-> "enum", path |-> m, rec |-> 0]]
  /\ lateSubmit' = (lateSubmit \/ finCalls > 0)
  /\ UNCHANGED << trVars, lockVars, clientVars, regVars, pkgs, pending, incs, decs, workQueue, done,
                  poolVars, finVars, panicked >>

NewPackage(m) ==
  [path |-> m, stage |-> "added", outcome |-> None, deq |-> 0, pub |-> 0,
   sessionId |-> None, client |-> None]

\* EnumPackages yields the next package of the manifest; queuePackage, first
\* statement: s.wg.Add(1)
QueuePackageAdd(c) ==
  /\ ~panicked
  /\ caller[c].pc = "enum"
  /\ Len(pkgs) < MaxRecords
  /\ pending' = pending + 1
  /\ incs' = incs + 1
  /\ pkgs' = Append(pkgs, NewPackage(caller[c].path))
  /\ caller' = [caller EXCEPT ![c].pc = "send", ![c].rec = Len(pkgs) + 1]
  /\ UNCHANGED << trVars, lockVars, clientVars, regVars, decs, workQueue, done, poolVars, finVars,
                  lateSubmit, panicked >>

\* A send on a channel without a capacity limit.
QueuePackageSend_Unbounded(c) ==
  /\ ~panicked
  /\ caller[c].pc = "send"
  /\ workQueue' = Append(workQueue, caller[c].rec)
  /\ pkgs' = [pkgs EXCEPT ![caller[c].rec].stage = "queued"]
  /\ caller' = [caller EXCEPT ![c].pc = "enum", ![c].rec = 0]
  /\ UNCHANGED << trVars, lockVars, clientVars, regVars, pending, incs, decs, done, poolVars, finVars,
                  lateSubmit, panicked >>

\* queuePackage, second statement: s.workQueue <- pkg, which blocks while
\* the channel holds QueueCap packages.
QueuePackageSend(c) ==
  /\ ~panicked
  /\ caller[c].pc = "send"
  /\ Len(workQueue) < QueueCap
  /\ workQueue' = Append(workQueue, caller[c].rec)
  /\ pkgs' = [pkgs EXCEPT ![caller[c].rec].stage = "queued"]
  /\ caller' = [caller EXCEPT ![c].pc = "enum", ![c].rec = 0]
  /\ UNCHANGED << trVars, lockVars, clientVars, regVars, pending, incs, decs, done, poolVars, finVars,
                  lateSubmit, panicked >>

\* EnumPackages has no further package: AddManifest returns (no value).
AddManifestReturn(c) ==
  /\ ~panicked
  /\ caller[c].pc = "enum"
  /\ caller' = [caller EXCEPT ![c] = [pc |-> "idle", path |-> None, rec |-> 0]]
  /\ UNCHANGED << trVars, lockVars, clientVars, regVars, pkgs, pending, incs, decs, workQueue, done,
                  poolVars, finVars, lateSubmit, panicked >>

\* ------------------------------------------------------ syncReportWorker

\* select, case pkg := <-s.workQueue: a worker blocked in the select takes
\* the head of the queue and enters syncPackage.
WorkerReceive ==
  /\ ~panicked
  /\ IdleWorkers > 0
  /\ workQueue # << >>
  /\ workQueue' = Tail(workQueue)
  /\ pkgs' = [pkgs EXCEPT ![Head(workQueue)].stage = "dequeued",
                          ![Head(workQueue)].deq = @ + 1]
  /\ UNCHANGED << trVars, lockVars, clientVars, regVars, caller, pending, incs, decs, done, poolVars,
                  finVars, lateSubmit, panicked >>

\* A shutdown signal that a single worker receives (a value sent on s.done
\* instead of the close).
WorkerExit_OneReceiver ==
  /\ ~panicked
  /\ IdleWorkers > 0
  /\ done
  /\ exited = 0
  /\ exited' = exited + 1
  /\ UNCHANGED << trVars, lockVars, clientVars, regVars, pkgs, caller, pending, incs, decs, workQueue,
                  done, workers, finVars, lateSubmit, panicked >>

\* select, case <-s.done: a worker blocked in the select returns.  When both
\* cases are ready the select picks either.
WorkerExit ==
  /\ ~panicked
  /\ IdleWorkers > 0
  /\ done
  /\ exited' = exited + 1
  /\ UNCHANGED << trVars, lockVars, clientVars, regVars, pkgs, caller, pending, incs, decs, workQueue,
                  done, workers, finVars, lateSubmit, panicked >>

\* syncPackage calling wg.Done before the remote call instead of deferring it.
SyncPackageGetSession_EarlyDone(r) ==
  /\ ~panicked
  /\ r \in InStage({"dequeued"})
  /\ LET res == getSession(syncSessions, pkgs[r].path)
     IN pkgs' = IF res.ok
                THEN [pkgs EXCEPT ![r].stage = "publishing",
                                  ![r].pub = @ + 1,
                                  ![r].sessionId = res.session.sessionId,
                                  ![r].client = res.session.toolServiceClient]
                ELSE [pkgs EXCEPT ![r].stage = "resolved",
                                  ![r].outcome = "sessionNotFound"]
  /\ WaitGroupDone
  /\ UNCHANGED << trVars, lockVars, clientVars, regVars, caller, incs, workQueue, done, poolVars, finRest,
                  lateSubmit >>

\* syncPackage looking up the session of the first package submitted.
SyncPackageGetSession_WrongKey(r) ==
  /\ ~panicked
  /\ r \in InStage({"dequeued"})
  /\ LET res == getSession(syncSessions, pkgs[1].path)
     IN IF res.ok
        THEN /\ pkgs' = [pkgs EXCEPT ![r].stage = "publishing",
                                     ![r].pub = @ + 1,
                                     ![r].sessionId = res.session.sessionId,
                                     ![r].client = res.session.toolServiceClient]
             /\ UNCHANGED << pending, decs, panicked, finPc >>
        ELSE /\ pkgs' = [pkgs EXCEPT ![r].stage = "resolved",
                                     ![r].outcome = "sessionNotFound"]
             /\ WaitGroupDone
  /\ UNCHANGED << trVars, lockVars, clientVars, regVars, caller, incs, workQueue, done, poolVars, finRest,
                  lateSubmit >>

\* syncPackage up to the remote call: getSession on the manifest path; on
\* error return (the deferred wg.Done runs), else build the request and
\* call PublishPackageInsight on the session's client.
SyncPackageGetSession(r) ==
  /\ ~panicked
  /\ r \in InStage({"dequeued"})
  /\ LET res == getSession(syncSessions, pkgs[r].path)
     IN IF res.ok
        THEN /\ pkgs' = [pkgs EXCEPT ![r].stage = "publishing",
                                     ![r].pub = @ + 1,
                                     ![r].sessionId = res.session.sessionId,
                                     ![r].client = res.session.toolServiceClient]
             /\ UNCHANGED << pending, decs, panicked, finPc >>
        ELSE /\ pkgs' = [pkgs EXCEPT ![r].stage = "resolved",
                                     ![r].outcome = "sessionNotFound"]
             /\ WaitGroupDone
  /\ UNCHANGED << trVars, lockVars, clientVars, regVars, caller, incs, workQueue, done, poolVars, finRest,
                  lateSubmit >>

\* A worker that puts the package back on the queue when the publish fails.
SyncPackagePublishReturn_Retry(r, ok) ==
  /\ ~panicked
  /\ r \in InStage({"publishing"})
  /\ IF ok \/ Len(workQueue) >= QueueCap
     THEN /\ pkgs' = [pkgs EXCEPT ![r].stage = "resolved",
                                  ![r].outcome = IF ok THEN "published"
                                                 ELSE "publishFailed"]
          /\ WaitGroupDone
          /\ UNCHANGED workQueue
     ELSE /\ pkgs' = [pkgs EXCEPT ![r].stage = "queued"]
          /\ workQueue' = Append(workQueue, r)
          /\ UNCHANGED << pending, decs, panicked, finPc >>
  /\ UNCHANGED << trVars, lockVars, clientVars, regVars, caller, incs, done, poolVars, finRest, lateSubmit >>

\* A worker that skips wg.Done when the publish fails.
SyncPackagePublishReturn_NoDoneOnError(r, ok) ==
  /\ ~panicked
  /\ r \in InStage({"publishing"})
  /\ pkgs' = [pkgs EXCEPT ![r].stage = "resolved",
                          ![r].outcome = IF ok THEN "published" ELSE "publishFailed"]
  /\ IF ok
     THEN WaitGroupDone
     ELSE UNCHANGED << pending, decs, panicked, finPc >>
  /\ UNCHANGED << trVars, lockVars, clientVars, regVars, caller, incs, workQueue, done, poolVars, finRest,
                  lateSubmit >>

\* A worker that returns from its loop when syncPackage returns an error.
SyncPackagePublishReturn_ExitOnError(r, ok) ==
  /\ ~panicked
  /\ r \in InStage({"publishing"})
  /\ pkgs' = [pkgs EXCEPT ![r].stage = "resolved",
                          ![r].outcome = IF ok THEN "published" ELSE "publishFailed"]
  /\ WaitGroupDone
  /\ exited' = IF ok THEN exited ELSE exited + 1
  /\ UNCHANGED << trVars, lockVars, clientVars, regVars, caller, incs, workQueue, done, workers, finRest,
                  lateSubmit >>

\* PublishPackageInsight returns (ok or an error); syncPackage returns and
\* the deferred wg.Done runs; the worker logs an error and loops.
SyncPackagePublishReturn(r, ok) ==
  /\ ~panicked
  /\ r \in InStage({"publishing"})
  /\ pkgs' = [pkgs EXCEPT ![r].stage = "resolved",
                          ![r].outcome = IF ok THEN "published" ELSE "publishFailed"]
  /\ WaitGroupDone
  /\ UNCHANGED << trVars, lockVars, clientVars, regVars, caller, incs, workQueue, done, poolVars, finRest,
                  lateSubmit >>

\* --------------------------------------------------------------- Finish

\* Finish is called.
FinishCall ==
  /\ ~panicked
  /\ finPc \in {"idle", "returned"}
  /\ finCalls < MaxFinishCalls
  /\ finPc' = "wait"
  /\ finCalls' = finCalls + 1
  /\ lateSubmit' = (lateSubmit \/ \E c \in Callers : caller[c].pc # "idle")
  /\ UNCHANGED << trVars, lockVars, clientVars, regVars, pkgs, caller, pending, incs, decs, workQueue,
                  done, poolVars, finKeys, completeCalls, finErr, drainMark,
                  panicked >>

\* Finish without the wait on the WaitGroup.
FinishWait_NoWait ==
  /\ ~panicked
  /\ finPc = "wait"
  /\ finPc' = "close"
  /\ drainMark' = Len(pkgs)
  /\ UNCHANGED << trVars, lockVars, clientVars, regVars, pkgs, caller, pending, incs, decs, workQueue,
                  done, poolVars, finKeys, completeCalls, finErr, finCalls,
                  lateSubmit, panicked >>

\* s.wg.Wait() reads the counter: 0, it returns; else Finish blocks.
FinishWait ==
  /\ ~panicked
  /\ finPc = "wait"
  /\ IF pending = 0
     THEN /\ finPc' = "close"
          /\ drainMark' = Len(pkgs)
     ELSE /\ finPc' = "blocked"
          /\ UNCHANGED drainMark
  /\ UNCHANGED << trVars, lockVars, clientVars, regVars, pkgs, caller, pending, incs, decs, workQueue,
                  done, poolVars, finKeys, completeCalls, finErr, finCalls,
                  lateSubmit, panicked >>

\* s.wg.Wait() wakes up after the counter reached 0 and reads it again.
FinishWake ==
  /\ ~panicked
  /\ finPc = "woken"
  /\ IF pending = 0
     THEN /\ finPc' = "close"
          /\ drainMark' = Len(pkgs)
          /\ UNCHANGED panicked
     ELSE /\ finPc' = "panic"
          /\ panicked' = TRUE
          /\ UNCHANGED drainMark
  /\ UNCHANGED << trVars, lockVars, clientVars, regVars, pkgs, caller, pending, incs, decs, workQueue,
                  done, poolVars, finKeys, completeCalls, finErr, finCalls,
                  lateSubmit >>

\* close(s.done), which panics when the channel is closed already; then
\* forEach takes the read lock and starts ranging over the map.
FinishClose ==
  /\ ~panicked
  /\ finPc = "close"
  /\ IF done
     THEN /\ panicked' = TRUE
          /\ finPc' = "panic"
          /\ UNCHANGED << done, finKeys >>
     ELSE /\ done' = TRUE
          /\ finPc' = "forEach"
          /\ finKeys' = DOMAIN syncSessions
          /\ UNCHANGED panicked
  /\ UNCHANGED << trVars, lockVars, clientVars, regVars, pkgs, caller, pending, incs, decs, workQueue,
                  poolVars, completeCalls, finErr, finCalls, drainMark,
                  lateSubmit >>

\* The visitor completing the wildcard (or any one) session for every key.
CompleteCall_OneSession(k, ok) ==
  LET k0 == IF Wildcard \in DOMAIN syncSessions THEN Wildcard
            ELSE CHOOSE x \in DOMAIN syncSessions : TRUE
  IN [key |-> k, sessionId |-> syncSessions[k0].sessionId,
      client |-> syncSessions[k0].toolServiceClient,
      status |-> "STATUS_SUCCESS", ok |-> ok]

\* The CompleteToolSession call the visitor of Finish makes for key k.
CompleteCall(k, ok) ==
  [key |-> k, sessionId |-> syncSessions[k].sessionId,
   client |-> syncSessions[k].toolServiceClient,
   status |-> "STATUS_SUCCESS", ok |-> ok]

\* The error returned by the CompleteToolSession call made for key k.
CompleteError(k) == << "CompleteToolSession", k >>

\* forEach with a loop that drops the visitor's error and goes on.
FinishVisit_IgnoreError(k, ok) ==
  /\ ~panicked
  /\ finPc = "forEach"
  /\ k \in finKeys
  /\ completeCalls' = Append(completeCalls, CompleteCall(k, ok))
  /\ finKeys' = finKeys \ {k}
  /\ UNCHANGED finErr
  /\ UNCHANGED << trVars, lockVars, clientVars, regVars, pkgs, caller, pending, incs, decs, workQueue,
                  done, poolVars, finPc, finCalls, drainMark, lateSubmit,
                  panicked >>

\* One iteration of the loop of forEach (map order: any key not yet visited):
\* the visitor of Finish calls CompleteToolSession; forEach returns the
\* first error.
FinishVisit(k, ok) ==
  /\ ~panicked
  /\ finPc = "forEach"
  /\ k \in finKeys
  /\ completeCalls' = Append(completeCalls, CompleteCall(k, ok))
  /\ IF ok
     THEN /\ finKeys' = finKeys \ {k}
          /\ UNCHANGED << finPc, finErr >>
     ELSE /\ finKeys' = {}
          /\ finPc' = "returned"
          /\ finErr' = CompleteError(k)
  /\ UNCHANGED << trVars, lockVars, clientVars, regVars, pkgs, caller, pending, incs, decs, workQueue,
                  done, poolVars, finCalls, drainMark, lateSubmit, panicked >>

\* The loop of forEach is over: forEach and Finish return nil.
ForEachReturn ==
  /\ ~panicked
  /\ finPc = "forEach"
  /\ finKeys = {}
  /\ finPc' = "returned"
  /\ finErr' = Nil
  /\ UNCHANGED << trVars, lockVars, clientVars, regVars, pkgs, caller, pending, incs, decs, workQueue,
                  done, poolVars, finKeys, completeCalls, finCalls, drainMark,
                  lateSubmit, panicked >>

\* ---------------------------------------------------------- specification

\* A direct call of getSession (takes the read lock, which forEach shares).
CallGetSession(key) ==
  /\ ~panicked
  /\ lookup' = [key |-> key] @@ getSession(syncSessions, key)
  /\ lookup' # lookup
  /\ UNCHANGED << trVars, lockVars, clientVars, config, syncSessions, pkgs, caller, pending, incs, decs,
                  workQueue, done, poolVars, finVars, lateSubmit, panicked >>

\* Multi-project sync: the session of manifest k is created and installed
\* under its path.
CreateManifestSession(k) ==
  /\ config.EnableMultiProjectSync
  /\ CallAddKeyedSession(k, SessionOf(k))

\* The reporter: sessions are created per scope at startup, then callers,
\* workers and Finish run concurrently.
Next ==
  \/ \E k \in Manifests : CreateManifestSession(k)
  \/ \E c \in Callers, m \in Manifests : AddManifest(c, m)
  \/ \E c \in Callers : QueuePackageAdd(c)
  \/ \E c \in Callers : QueuePackageSend(c)
  \/ \E c \in Callers : AddManifestReturn(c)
  \/ WorkerReceive
  \/ WorkerExit
  \/ \E r \in 1..Len(pkgs) : SyncPackageGetSession(r)
  \/ \E r \in 1..Len(pkgs), ok \in BOOLEAN : SyncPackagePublishReturn(r, ok)
  \/ FinishCall
  \/ FinishWait
  \/ FinishWake
  \/ FinishClose
  \/ \E k \in Keys, ok \in BOOLEAN : FinishVisit(k, ok)
  \/ ForEachReturn

Spec == Init /\ [][Next]_vars

\* The session registry alone, under any sequence of its operations.
RegNext ==
  \/ \E s \in Sessions : CallAddPrimarySession(s)
  \/ \E k \in Keys, s \in Sessions : CallAddKeyedSession(k, s)
  \/ \E k \in Keys : CallGetSession(k)

RegSpec == Init /\ [][RegNext]_vars

\* Sequential use of the reporter: every AddManifest call returns before
\* Finish is called, and Finish is called once.
SeqAddManifest(c, m) ==
  /\ finCalls = 0
  /\ AddManifest(c, m)

SeqFinishCall ==
  /\ finCalls = 0
  /\ \A c \in Callers : caller[c].pc = "idle"
  /\ FinishCall

SeqNext ==
  \/ \E k \in Manifests : CreateManifestSession(k)
  \/ \E c \in Callers, m \in Manifests : SeqAddManifest(c, m)
  \/ \E c \in Callers : QueuePackageAdd(c)
  \/ \E c \in Callers : QueuePackageSend(c)
  \/ \E c \in Callers : AddManifestReturn(c)
  \/ WorkerReceive
  \/ WorkerExit
  \/ \E r \in 1..Len(pkgs) : SyncPackageGetSession(r)
  \/ \E r \in 1..Len(pkgs), ok \in BOOLEAN : SyncPackagePublishReturn(r, ok)
  \/ SeqFinishCall
  \/ FinishWait
  \/ FinishWake
  \/ FinishClose
  \/ \E k \in Keys, ok \in BOOLEAN : FinishVisit(k, ok)
  \/ ForEachReturn

\* The Go scheduler runs every runnable goroutine, a manifest has finitely
\* many packages, and every remote call returns.
Fairness ==
  /\ WF_vars(\E c \in Callers : QueuePackageSend(c))
  /\ WF_vars(\E c \in Callers : AddManifestReturn(c))
  /\ WF_vars(WorkerReceive)
  /\ WF_vars(WorkerExit)
  /\ WF_vars(\E r \in 1..Len(pkgs) : SyncPackageGetSession(r))
  /\ WF_vars(\E r \in 1..Len(pkgs), ok \in BOOLEAN : SyncPackagePublishReturn(r, ok))
  /\ WF_vars(FinishWait)
  /\ WF_vars(FinishWake)
  /\ WF_vars(FinishClose)
  /\ WF_vars(\E k \in Keys, ok \in BOOLEAN : FinishVisit(k, ok))
  /\ WF_vars(ForEachReturn)

LiveSpec == Init /\ [][SeqNext]_vars /\ Fairness

\* ------------------------------------------- syncPackage: building the request
\* The content of the request does not influence the control flow of
\* syncPackage (no step of the construction returns an error), so the
\* construction is followed on its own, for one package at a time.

\* Number of vulnerabilities of a package.
MaxVulns == 2

\* Vulnerability identifiers tried: the two known prefixes, an unknown
\* prefix, lower case, the prefix cut short, the prefix alone, the prefix
\* not at the start, and the empty string.
VulnIds ==
  { << "C", "V", "E", "-", "1" >>,
    << "O", "S", "V", "-", "2" >>,
    << "G", "H", "S", "A", "-", "x" >>,
    << "c", "v", "e", "-", "1" >>,
    << "C", "V", "E" >>,
    << "O", "S", "V", "-" >>,
    << "X", "C", "V", "E", "-", "1" >>,
    EmptyString }

Summaries == { << "s", "u", "m" >> }

\* Values of one element of insights.Vulnerabilities: Id and Summary are
\* pointers to strings.
VulnValues ==
  [Id : {NilPtr} \cup { Ptr(i) : i \in VulnIds },
   Summary : {NilPtr} \cup { Ptr(t) : t \in Summaries }]

SeqsUpTo(S, n) == UNION { [1..k -> S] : k \in 0..n }

\* Number of projects of a package.
MaxProjects == 2

GITHUB == << "G", "I", "T", "H", "U", "B" >>
GITLAB == << "G", "I", "T", "L", "A", "B" >>

\* Source names tried: the two known names, lower case, another name and
\* the empty string.
ProjectTypes ==
  { GITHUB, GITLAB, << "g", "i", "t", "h", "u", "b" >>, << "B", "I", "T" >>, EmptyString }

\* Stars, Forks and Issues of a project: pointers to integers.
ProjectCounts ==
  { [Stars |-> NilPtr,  Forks |-> NilPtr,  Issues |-> NilPtr],
    [Stars |-> Ptr(7),  Forks |-> Ptr(3),  Issues |-> Ptr(5)],
    [Stars |-> Ptr(0),  Forks |-> NilPtr,  Issues |-> Ptr(2)],
    [Stars |-> NilPtr,  Forks |-> Ptr(4),  Issues |-> NilPtr] }

\* Values of one element of insights.Projects.
ProjectValues ==
  { [Type |-> t, Name |-> n, Link |-> n, Stars |-> c.Stars, Forks |-> c.Forks,
     Issues |-> c.Issues] :
      t \in {NilPtr} \cup { Ptr(x) : x \in ProjectTypes },
      n \in {NilPtr, Ptr(<< "u" >>)},
      c \in ProjectCounts }

MIT == << "M", "I", "T" >>
\* Values of insights.Licenses: nil, empty, one and two licenses.
LicenseLists ==
  { NilPtr, Ptr(<< >>), Ptr(<< MIT >>), Ptr(<< MIT, << "B", "S", "D" >> >>) }

Dep(n) == [Name |-> << "d", n >>, Version |-> << n >>]
\* Results of pkg.GetDependencies(): an error (with or without a list
\* beside it), no dependency, one and two dependencies.
DependencyResults ==
  { [err |-> TRUE, list |-> << >>],
    [err |-> TRUE, list |-> << Dep("1") >>],
    NoDependencies,
    [err |-> FALSE, list |-> << Dep("1") >>],
    [err |-> FALSE, list |-> << Dep("1"), Dep("2") >>] }

WithInsights(ins, deps) == [ZeroPackage EXCEPT !.Insights = ins, !.Dependencies = deps]

\* Packages passed to syncPackage: every list of up to MaxVulns
\* vulnerabilities, every list of up to MaxProjects projects, and every
\* combination of absent and present insights, lists and dependencies.
Packages ==
  { ZeroPackage, WithInsights(Ptr(ZeroInsights), NoDependencies) } \cup
  { WithInsights(Ptr([ZeroInsights EXCEPT !.Vulnerabilities = Ptr(vs)]), NoDependencies) :
      vs \in SeqsUpTo(VulnValues, MaxVulns) } \cup
  { WithInsights(Ptr([ZeroInsights EXCEPT !.Projects = Ptr(ps)]), NoDependencies) :
      ps \in SeqsUpTo(ProjectValues, MaxProjects) } \cup
  { WithInsights(NilPtr, d) : d \in DependencyResults } \cup
  { WithInsights(Ptr([Vulnerabilities |-> v, Projects |-> p, Licenses |-> l]), d) :
      v \in { NilPtr, Ptr(<< [Id |-> Ptr(<< "C", "V", "E", "-", "1" >>), Summary |-> NilPtr] >>) },
      p \in { NilPtr, Ptr(<< [Type |-> Ptr(GITHUB), Name |-> NilPtr, Link |-> NilPtr,
                              Stars |-> NilPtr, Forks |-> NilPtr, Issues |-> NilPtr] >>) },
      l \in LicenseLists,
      d \in DependencyResults }

PROJECT_SOURCE_TYPE_UNSPECIFIED == "PROJECT_SOURCE_TYPE_UNSPECIFIED"
PROJECT_SOURCE_TYPE_GITHUB == "PROJECT_SOURCE_TYPE_GITHUB"
PROJECT_SOURCE_TYPE_GITLAB == "PROJECT_SOURCE_TYPE_GITLAB"

VULNERABILITY_IDENTIFIER_TYPE_UNSPECIFIED == "VULNERABILITY_IDENTIFIER_TYPE_UNSPECIFIED"
VULNERABILITY_IDENTIFIER_TYPE_CVE == "VULNERABILITY_IDENTIFIER_TYPE_CVE"
VULNERABILITY_IDENTIFIER_TYPE_OSV == "VULNERABILITY_IDENTIFIER_TYPE_OSV"

\* A test for the prefix anywhere in the string.
HasPrefix_Contains(str, prefix) ==
  \E i \in 1..Len(str) :
    /\ i + Len(prefix) - 1 <= Len(str)
    /\ SubSeq(str, i, i + Len(prefix) - 1) = prefix

\* strings.HasPrefix
HasPrefix(str, prefix) ==
  /\ Len(str) >= Len(prefix)
  /\ SubSeq(str, 1, Len(prefix)) = prefix

\* The vulnerabilities the loop ranges over.
vulnerabilities ==
  SafelyGetValue(SafelyGetValue(pkg.Insights, ZeroInsights).Vulnerabilities, << >>)

\* The entry built for vulnerability v: the Type field keeps its zero value
\* (unspecified) unless the identifier has one of the two prefixes.
Vulnerability(v) ==
  LET vId == SafelyGetValue(v.Id, EmptyString)
  IN [Id |-> [Value |-> vId,
              Type |-> IF HasPrefix(vId, << "C", "V", "E", "-" >>)
                       THEN VULNERABILITY_IDENTIFIER_TYPE_CVE
                       ELSE IF HasPrefix(vId, << "O", "S", "V", "-" >>)
                            THEN VULNERABILITY_IDENTIFIER_TYPE_OSV
                            ELSE VULNERABILITY_IDENTIFIER_TYPE_UNSPECIFIED],
      Summary |-> SafelyGetValue(v.Summary, EmptyString)]

\* The initial state of the construction for any package.
TransInit ==
  /\ config \in [EnableMultiProjectSync : BOOLEAN, WorkerCount : {1}]
  /\ syncSessions = IF ~config.EnableMultiProjectSync
                    THEN addPrimarySession(EmptyPool, SessionOf(Wildcard))
                    ELSE EmptyPool
  /\ pkgs = << >>
  /\ caller = [c \in Callers |-> [pc |-> "idle", path |-> None, rec |-> 0]]
  /\ pending = 0
  /\ incs = 0
  /\ decs = 0
  /\ workQueue = << >>
  /\ done = FALSE
  /\ workers = startWorkers(config.WorkerCount)
  /\ exited = 0
  /\ finPc = "idle"
  /\ finKeys = {}
  /\ completeCalls = << >>
  /\ finErr = Nil
  /\ finCalls = 0
  /\ drainMark = 0
  /\ lateSubmit = FALSE
  /\ lookup = [key |-> None, ok |-> FALSE, session |-> NoSession]
  /\ panicked = FALSE
  /\ pkg \in Packages
  /\ req = NoRequest
  /\ trPc = "start"
  /\ sent = << >>
  /\ ret = Nil
  /\ mu = FreeMutex
  /\ gor = [g \in Goroutines |-> IdleGoroutine(0)]
  /\ RequestEditors = << >>
  /\ httpCall = NoCall

reporterVars ==
  << config, syncSessions, pkgs, caller, pending, incs, decs, workQueue, done,
     workers, exited, finPc, finKeys, completeCalls, finErr, finCalls,
     drainMark, lateSubmit, lookup, panicked >>

\* The lists of the insights the loops range over.
insights == SafelyGetValue(pkg.Insights, ZeroInsights)
project == SafelyGetValue(insights.Projects, << >>)
licenses == SafelyGetValue(insights.Licenses, << >>)

\* An entry that passes the upstream pointers on as they are.
ProjectInsight_OmitAbsent(p) ==
  LET type == SafelyGetValue(p.Type, EmptyString)
      vt == IF type = GITHUB THEN PROJECT_SOURCE_TYPE_GITHUB
            ELSE IF type = GITLAB THEN PROJECT_SOURCE_TYPE_GITLAB
                 ELSE PROJECT_SOURCE_TYPE_UNSPECIFIED
  IN [Project |-> [Type |-> vt,
                   Name |-> SafelyGetValue(p.Name, EmptyString),
                   Url |-> SafelyGetValue(p.Link, EmptyString)],
      Stars |-> p.Stars,
      Forks |-> p.Forks,
      Issues |-> IF Len(p.Issues) = 0 THEN NilPtr ELSE Ptr([Total |-> p.Issues[1]])]

\* The entry built for project p: the counts are converted and always
\* set, the source type is unspecified unless the name is one of the two
\* known ones.
ProjectInsight(p) ==
  LET stars == SafelyGetValue(p.Stars, 0)
      forks == SafelyGetValue(p.Forks, 0)
      issues == SafelyGetValue(p.Issues, 0)
      type == SafelyGetValue(p.Type, EmptyString)
      vt == IF type = GITHUB THEN PROJECT_SOURCE_TYPE_GITHUB
            ELSE IF type = GITLAB THEN PROJECT_SOURCE_TYPE_GITLAB
                 ELSE PROJECT_SOURCE_TYPE_UNSPECIFIED
  IN [Project |-> [Type |-> vt,
                   Name |-> SafelyGetValue(p.Name, EmptyString),
                   Url |-> SafelyGetValue(p.Link, EmptyString)],
      Stars |-> Ptr(stars),
      Forks |-> Ptr(forks),
      Issues |-> Ptr([Total |-> issues])]

\* The entry built for a license.
LicenseMeta(license) == [LicenseId |-> license, Name |-> license]

\* The entry built for a dependency.
PackageVersion(child) == [Name |-> child.Name, Version |-> child.Version]

\* The error syncPackage wraps around a failed publish.
PublishError == << "failed to publish package insight" >>

\* The session lookup at the head of syncPackage, then the request literal:
\* every list of PackageVersionInsight starts as an empty, non-nil slice.
BuildBaseRequest ==
  /\ trPc = "start"
  /\ LET res == getSession(syncSessions, pkg.Path)
     IN IF res.ok
        THEN /\ req' = [ToolSessionId |-> res.session.sessionId,
                        Namespace |-> pkg.Path,
                        Name |-> pkg.Name,
                        Version |-> pkg.Version,
                        Dependencies |-> << >>,
                        Vulnerabilities |-> << >>,
                        ProjectInsights |-> << >>,
                        Licenses |-> << >>,
                        NonNil |-> {"Dependencies", "Vulnerabilities",
                                    "ProjectInsights", "Licenses"}]
             /\ trPc' = "dependencies"
             /\ UNCHANGED ret
        ELSE /\ trPc' = "returned"
             /\ ret' = << "failed to get session for package" >>
             /\ UNCHANGED req
  /\ UNCHANGED << pkg, sent, reporterVars, lockVars, clientVars >>

\* GetDependencies whose error makes syncPackage return it.
GetDependencies_Propagate ==
  /\ trPc = "dependencies"
  /\ IF pkg.Dependencies.err
     THEN /\ trPc' = "returned"
          /\ ret' = << "failed to get dependencies" >>
          /\ UNCHANGED req
     ELSE /\ req' = [req EXCEPT !.Dependencies =
                       [i \in 1..Len(pkg.Dependencies.list) |->
                          PackageVersion(pkg.Dependencies.list[i])]]
          /\ trPc' = "vulnerabilities"
          /\ UNCHANGED ret
  /\ UNCHANGED << pkg, sent, reporterVars, lockVars, clientVars >>

\* pkg.GetDependencies() returns: an error is logged and nothing is added,
\* else one entry per dependency is appended.
GetDependencies ==
  /\ trPc = "dependencies"
  /\ req' = IF pkg.Dependencies.err THEN req
            ELSE [req EXCEPT !.Dependencies =
                    [i \in 1..Len(pkg.Dependencies.list) |->
                       PackageVersion(pkg.Dependencies.list[i])]]
  /\ trPc' = "vulnerabilities"
  /\ UNCHANGED << pkg, sent, ret, reporterVars, lockVars, clientVars >>

\* One iteration of the loop over the vulnerabilities.
AppendVulnerability ==
  /\ trPc = "vulnerabilities"
  /\ Len(req.Vulnerabilities) < Len(vulnerabilities)
  /\ req' = [req EXCEPT !.Vulnerabilities =
               Append(@, Vulnerability(vulnerabilities[Len(@) + 1]))]
  /\ UNCHANGED << pkg, trPc, sent, ret, reporterVars, lockVars, clientVars >>

\* The loop over the vulnerabilities is over.
VulnerabilitiesDone ==
  /\ trPc = "vulnerabilities"
  /\ Len(req.Vulnerabilities) = Len(vulnerabilities)
  /\ trPc' = "projects"
  /\ UNCHANGED << pkg, req, sent, ret, reporterVars, lockVars, clientVars >>

\* One iteration of the loop over the projects.
AppendProjectInsight ==
  /\ trPc = "projects"
  /\ Len(req.ProjectInsights) < Len(project)
  /\ req' = [req EXCEPT !.ProjectInsights =
               Append(@, ProjectInsight(project[Len(@) + 1]))]
  /\ UNCHANGED << pkg, trPc, sent, ret, reporterVars, lockVars, clientVars >>

\* The loop over the projects is over.
ProjectsDone ==
  /\ trPc = "projects"
  /\ Len(req.ProjectInsights) = Len(project)
  /\ trPc' = "licenses"
  /\ UNCHANGED << pkg, req, sent, ret, reporterVars, lockVars, clientVars >>

\* One iteration of the loop over the licenses.
AppendLicense ==
  /\ trPc = "licenses"
  /\ Len(req.Licenses) < Len(licenses)
  /\ req' = [req EXCEPT !.Licenses = Append(@, LicenseMeta(licenses[Len(@) + 1]))]
  /\ UNCHANGED << pkg, trPc, sent, ret, reporterVars, lockVars, clientVars >>

\* The loop over the licenses is over: PublishPackageInsight is called
\* with the request.
PublishPackageInsight ==
  /\ trPc = "licenses"
  /\ Len(req.Licenses) = Len(licenses)
  /\ sent' = Append(sent, req)
  /\ trPc' = "publish"
  /\ UNCHANGED << pkg, req, ret, reporterVars, lockVars, clientVars >>

\* PublishPackageInsight returns: syncPackage returns nil or the wrapped
\* error.
PublishPackageInsightReturn(ok) ==
  /\ trPc = "publish"
  /\ ret' = IF ok THEN Nil ELSE PublishError
  /\ trPc' = "returned"
  /\ UNCHANGED << pkg, req, sent, reporterVars, lockVars, clientVars >>

TransNext ==
  \/ BuildBaseRequest
  \/ GetDependencies
  \/ AppendVulnerability
  \/ VulnerabilitiesDone
  \/ AppendProjectInsight
  \/ ProjectsDone
  \/ AppendLicense
  \/ PublishPackageInsight
  \/ \E ok \in BOOLEAN : PublishPackageInsightReturn(ok)

TransSpec == TransInit /\ [][TransNext]_vars

\* --------------------------------------------- syncSessionPool: the lock
\* The operations of the registry step by step: Lock or RLock, the body,
\* the deferred Unlock or RUnlock.  A goroutine that called Lock keeps new
\* readers out until it has held and released the lock.

\* Number of registry operations one goroutine performs.
MaxRegOps == 1

WriteOps == {"addPrimarySession", "addKeyedSession"}
ReadOps == {"getSession", "forEach"}

otherVars ==
  << config, pkgs, caller, pending, incs, decs, workQueue, done, workers,
     exited, finPc, finKeys, completeCalls, finErr, finCalls, drainMark,
     lateSubmit, lookup, panicked, trVars, clientVars >>

\* Goroutine g calls operation op with key.
RegistryCall(g, op, key) ==
  /\ gor[g].pc = "idle"
  /\ gor[g].n < MaxRegOps
  /\ key = IF op \in {"addPrimarySession", "forEach"} THEN Wildcard ELSE "m1"
  /\ gor' = [gor EXCEPT ![g].pc = "lock", ![g].op = op, ![g].key = key]
  /\ UNCHANGED << mu, syncSessions, otherVars >>

\* s.mu.Lock(), first half: the writer announces itself.
Lock(g) ==
  /\ gor[g].pc = "lock"
  /\ gor[g].op \in WriteOps
  /\ mu' = [mu EXCEPT !.pending = @ \cup {g}]
  /\ gor' = [gor EXCEPT ![g].pc = "lockwait"]
  /\ UNCHANGED << syncSessions, otherVars >>

\* s.mu.Lock(), second half: the writer gets the lock once no reader and no
\* writer holds it.
LockAcquire(g) ==
  /\ gor[g].pc = "lockwait"
  /\ mu.writer = "none"
  /\ mu.readers = {}
  /\ mu' = [mu EXCEPT !.writer = g, !.pending = @ \ {g}]
  /\ gor' = [gor EXCEPT ![g].pc = "body"]
  /\ UNCHANGED << syncSessions, otherVars >>

\* s.mu.RLock(): a reader gets the lock unless a writer holds it or waits.
RLock(g) ==
  /\ gor[g].pc = "lock"
  /\ gor[g].op \in ReadOps
  /\ mu.writer = "none"
  /\ mu.pending = {}
  /\ mu' = [mu EXCEPT !.readers = @ \cup {g}]
  /\ gor' = [gor EXCEPT ![g].pc = "body", ![g].left = DOMAIN syncSessions]
  /\ UNCHANGED << syncSessions, otherVars >>

\* The body of addPrimarySession and of addKeyedSession.
LockedAdd(g) ==
  /\ gor[g].pc = "body"
  /\ gor[g].op \in WriteOps
  /\ syncSessions' = IF gor[g].op = "addPrimarySession"
                     THEN addPrimarySession(syncSessions, SessionOf(Wildcard))
                     ELSE addKeyedSession(syncSessions, gor[g].key, SessionOf(gor[g].key))
  /\ gor' = [gor EXCEPT ![g].pc = "unlock"]
  /\ UNCHANGED << mu, otherVars >>

\* The body of getSession: each of its three returns leads to the deferred
\* RUnlock.
LockedGetSession(g) ==
  /\ gor[g].pc = "body"
  /\ gor[g].op = "getSession"
  /\ gor' = [gor EXCEPT ![g].pc = "unlock",
                         ![g].ok = getSession(syncSessions, gor[g].key).ok]
  /\ UNCHANGED << mu, syncSessions, otherVars >>

\* A visitor that calls getSession, that is RLock, on the registry.
ForEachVisit_Reenter(g, k, ok) ==
  /\ gor[g].pc = "body"
  /\ gor[g].op = "forEach"
  /\ k \in gor[g].left
  /\ mu.writer = "none"
  /\ mu.pending = {}
  /\ gor' = IF ok THEN [gor EXCEPT ![g].left = @ \ {k}]
            ELSE [gor EXCEPT ![g].pc = "unlock", ![g].left = {}, ![g].ok = FALSE]
  /\ UNCHANGED << mu, syncSessions, otherVars >>

\* One iteration of forEach: the visitor (which makes a remote call and no
\* call of the registry) returns nil or an error; the error ends the loop.
ForEachVisit(g, k, ok) ==
  /\ gor[g].pc = "body"
  /\ gor[g].op = "forEach"
  /\ k \in gor[g].left
  /\ gor' = IF ok THEN [gor EXCEPT ![g].left = @ \ {k}]
            ELSE [gor EXCEPT ![g].pc = "unlock", ![g].left = {}, ![g].ok = FALSE]
  /\ UNCHANGED << mu, syncSessions, otherVars >>

\* The loop of forEach is over.
ForEachEnd(g) ==
  /\ gor[g].pc = "body"
  /\ gor[g].op = "forEach"
  /\ gor[g].left = {}
  /\ gor' = [gor EXCEPT ![g].pc = "unlock", ![g].ok = TRUE]
  /\ UNCHANGED << mu, syncSessions, otherVars >>

\* defer s.mu.Unlock()
Unlock(g) ==
  /\ gor[g].pc = "unlock"
  /\ gor[g].op \in WriteOps
  /\ mu' = [mu EXCEPT !.writer = "none"]
  /\ gor' = [gor EXCEPT ![g] = IdleGoroutine(gor[g].n + 1)]
  /\ UNCHANGED << syncSessions, otherVars >>

\* defer s.mu.RUnlock()
RUnlock(g) ==
  /\ gor[g].pc = "unlock"
  /\ gor[g].op \in ReadOps
  /\ mu' = [mu EXCEPT !.readers = @ \ {g}]
  /\ gor' = [gor EXCEPT ![g] = [IdleGoroutine(gor[g].n + 1) EXCEPT !.ok = gor[g].ok]]
  /\ UNCHANGED << syncSessions, otherVars >>

LockInit ==
  /\ Init
  /\ config.WorkerCount = 1

LockNext ==
  \/ \E g \in Goroutines, op \in WriteOps \cup ReadOps, key \in Keys : RegistryCall(g, op, key)
  \/ \E g \in Goroutines : Lock(g)
  \/ \E g \in Goroutines : LockAcquire(g)
  \/ \E g \in Goroutines : RLock(g)
  \/ \E g \in Goroutines : LockedAdd(g)
  \/ \E g \in Goroutines : LockedGetSession(g)
  \/ \E g \in Goroutines, k \in Keys, ok \in BOOLEAN : ForEachVisit(g, k, ok)
  \/ \E g \in Goroutines : ForEachEnd(g)
  \/ \E g \in Goroutines : Unlock(g)
  \/ \E g \in Goroutines : RUnlock(g)

\* Every goroutine inside an operation is scheduled, and a visitor returns.
LockFairness ==
  \A g \in Goroutines :
    /\ WF_vars(Lock(g))
    /\ WF_vars(LockAcquire(g))
    /\ WF_vars(RLock(g))
    /\ WF_vars(LockedAdd(g))
    /\ WF_vars(LockedGetSession(g))
    /\ WF_vars(\E k \in Keys, ok \in BOOLEAN : ForEachVisit(g, k, ok))
    /\ WF_vars(ForEachEnd(g))
    /\ WF_vars(Unlock(g))
    /\ WF_vars(RUnlock(g))

LockSpec == LockInit /\ [][LockNext]_vars /\ LockFairness

\* ------------------------------------------------- generated HTTP client
\* Client of package syncv1: NewClient applies the options, of which
\* WithRequestEditorFn registers a request editor; a method such as
\* CreateSyncJob builds the request, runs applyEditors and calls Do.

\* Number of editors registered on the client, and passed to one call.
MaxClientEditors == 2
MaxCallEditors == 2

\* A RequestEditorFn: identified by id, returning an error or nil.
Editors == [id : {"e1", "e2"}, fails : BOOLEAN]

\* The error editor fn returns.
EditorError(fn) == << "editor", fn.id >>
RequestError == << "request" >>
TransportError == << "transport" >>

nonClientVars == << reporterVars, trVars, lockVars >>

\* NewClient applies the option WithRequestEditorFn(fn): fn is appended to
\* c.RequestEditors.
WithRequestEditorFn(fn) ==
  /\ httpCall.pc = "idle"
  /\ Len(RequestEditors) < MaxClientEditors
  /\ RequestEditors' = Append(RequestEditors, fn)
  /\ UNCHANGED << httpCall, nonClientVars >>

\* CreateSyncJob is called with reqEditors: the request is built; an error
\* there is returned at once, else applyEditors starts.
CreateSyncJob(reqEditors, built) ==
  /\ httpCall.pc = "idle"
  /\ httpCall' = IF built
                 THEN [NoCall EXCEPT !.pc = "clientEditors",
                                     !.additionalEditors = reqEditors]
                 ELSE [NoCall EXCEPT !.pc = "returned",
                                     !.additionalEditors = reqEditors,
                                     !.err = RequestError]
  /\ UNCHANGED << RequestEditors, nonClientVars >>

\* The number of editors of the current loop that have run.
EditorsRun ==
  IF httpCall.pc = "clientEditors" THEN Len(httpCall.applied)
  ELSE Len(httpCall.applied) - Len(RequestEditors)

\* A loop over c.RequestEditors that drops the error of an editor.
ApplyClientEditor_IgnoreError ==
  /\ httpCall.pc = "clientEditors"
  /\ EditorsRun < Len(RequestEditors)
  /\ httpCall' = [httpCall EXCEPT !.applied = Append(@, RequestEditors[EditorsRun + 1])]
  /\ UNCHANGED << RequestEditors, nonClientVars >>

\* applyEditors, one iteration of the loop over c.RequestEditors: the
\* editor runs; its error is returned by applyEditors and by the method.
ApplyClientEditor ==
  /\ httpCall.pc = "clientEditors"
  /\ EditorsRun < Len(RequestEditors)
  /\ LET r == RequestEditors[EditorsRun + 1]
     IN httpCall' = IF r.fails
                    THEN [httpCall EXCEPT !.applied = Append(@, r),
                                          !.err = EditorError(r),
                                          !.pc = "returned"]
                    ELSE [httpCall EXCEPT !.applied = Append(@, r)]
  /\ UNCHANGED << RequestEditors, nonClientVars >>

\* applyEditors: the loop over c.RequestEditors is over.
ClientEditorsDone ==
  /\ httpCall.pc = "clientEditors"
  /\ EditorsRun = Len(RequestEditors)
  /\ httpCall' = [httpCall EXCEPT !.pc = "additionalEditors"]
  /\ UNCHANGED << RequestEditors, nonClientVars >>

\* applyEditors, one iteration of the loop over additionalEditors.
ApplyAdditionalEditor ==
  /\ httpCall.pc = "additionalEditors"
  /\ EditorsRun < Len(httpCall.additionalEditors)
  /\ LET r == httpCall.additionalEditors[EditorsRun + 1]
     IN httpCall' = IF r.fails
                    THEN [httpCall EXCEPT !.applied = Append(@, r),
                                          !.err = EditorError(r),
                                          !.pc = "returned"]
                    ELSE [httpCall EXCEPT !.applied = Append(@, r)]
  /\ UNCHANGED << RequestEditors, nonClientVars >>

\* applyEditors returns nil: the method calls c.Client.Do(req) and returns
\* its result.
Do(ok) ==
  /\ httpCall.pc = "additionalEditors"
  /\ EditorsRun = Len(httpCall.additionalEditors)
  /\ httpCall' = [httpCall EXCEPT !.sent = @ + 1,
                                  !.err = IF ok THEN << >> ELSE TransportError,
                                  !.pc = "returned"]
  /\ UNCHANGED << RequestEditors, nonClientVars >>

ClientInit ==
  /\ Init
  /\ config = [EnableMultiProjectSync |-> FALSE, WorkerCount |-> 1]

ClientNext ==
  \/ \E fn \in Editors : WithRequestEditorFn(fn)
  \/ \E reqEditors \in SeqsUpTo(Editors, MaxCallEditors), built \in BOOLEAN :
       CreateSyncJob(reqEditors, built)
  \/ ApplyClientEditor
  \/ ClientEditorsDone
  \/ ApplyAdditionalEditor
  \/ \E ok \in BOOLEAN : Do(ok)

ClientSpec == ClientInit /\ [][ClientNext]_vars

\* ================================================================ claims

Resolved(r) == pkgs[r].stage = "resolved"
Unresolved == InStage({"added", "queued", "dequeued", "publishing"})
Min(S) == CHOOSE x \in S : \A y \in S : x <= y
CallsFor(k) == { i \in 1..Len(completeCalls) : completeCalls[i].key = k }
FailedCalls == { i \in 1..Len(completeCalls) : ~completeCalls[i].ok }
CompletedIds == { completeCalls[i].sessionId : i \in 1..Len(completeCalls) }
HasWildcard == Wildcard \in DOMAIN syncSessions

\* C1 (drain completeness): when every AddManifest call returned before
\* Finish was called and none was made afterwards, the WaitGroup counter is 0
\* and every submitted package is resolved once Finish has returned.
C1_DrainCompleteness ==
  (finPc = "returned" /\ ~lateSubmit) =>
    (pending = 0 /\ \A r \in 1..Len(pkgs) : Resolved(r))

C1_Witness ==
  /\ finPc = "returned"
  /\ ~lateSubmit
  /\ Len(pkgs) > QueueCap
  /\ pending = 0

\* C2 as stated: at the moment Finish returns, in every interleaving (submit
\* calls concurrent with Finish included), no accepted package sits in the
\* work queue or is counted by the WaitGroup.
C2_NothingLeftAtReturn ==
  [][(finPc # "returned" /\ finPc' = "returned") =>
       (pending' = 0 /\ workQueue' = << >>)]_vars

\* C2 as amended: every package whose wg.Add preceded the return of wg.Wait
\* in Finish is resolved (published or failed) from then on, hence before
\* Finish returns; packages submitted later are not covered.
C2_DrainedBeforeWaitReturned ==
  \A r \in 1..drainMark : Resolved(r)

C2_Witness ==
  /\ finPc = "returned"
  /\ drainMark >= 1
  /\ drainMark < Len(pkgs)
  /\ ~Resolved(Len(pkgs))

\* C3 (no deadlock): under sequential use with at least one worker, every
\* AddManifest call returns, a Finish call returns, and once it has returned
\* the numbers of wg.Add and wg.Done calls both equal the number of packages.
C3_NoDeadlock ==
  (workers >= 1) =>
    /\ \A c \in Callers : (caller[c].pc # "idle") ~> (caller[c].pc = "idle")
    /\ (finPc \in {"wait", "blocked"}) ~> (finPc = "returned")
    /\ [](finPc = "returned" => (incs = decs /\ decs = Len(pkgs)))

C3_Witness ==
  /\ workers >= 1
  /\ finPc = "returned"
  /\ Len(pkgs) > QueueCap
  /\ incs = Len(pkgs)
  /\ decs = Len(pkgs)

\* Once a completion call was issued for a session, no publish on that
\* session is in flight, and none is issued afterwards.
NoPublishOnCompleted ==
  \A r \in InStage({"publishing"}) : pkgs[r].sessionId \notin CompletedIds
NoPublishIssuedOnCompleted ==
  \A r \in 1..Len(pkgs) :
    (pkgs[r].stage # "publishing" /\ pkgs'[r].stage = "publishing")
      => pkgs'[r].sessionId \notin CompletedIds'

\* C4 as stated: in every reachable state in which a completion call was
\* issued for a session, no publish on that session is queued, in flight or
\* issued later.
C4_NoPublishAfterComplete ==
  /\ []((completeCalls # << >>) => (Unresolved = {} /\ NoPublishOnCompleted))
  /\ [][NoPublishIssuedOnCompleted]_vars

\* C4 as amended: the same, provided every AddManifest call returned before
\* Finish was called and none was made afterwards.
C4_NoPublishAfterCompleteSeq ==
  /\ []((completeCalls # << >> /\ ~lateSubmit)
          => (Unresolved = {} /\ NoPublishOnCompleted))
  /\ [][~lateSubmit' => NoPublishIssuedOnCompleted]_vars

C4_Witness ==
  /\ ~lateSubmit
  /\ completeCalls # << >>
  /\ \E r \in 1..Len(pkgs) :
       /\ pkgs[r].outcome = "published"
       /\ pkgs[r].sessionId \in CompletedIds

C6_ReturnsFirstError ==
  (finPc = "returned") =>
    IF FailedCalls = {} THEN finErr = Nil
    ELSE finErr = CompleteError(completeCalls[Min(FailedCalls)].key)

C6_Witness ==
  /\ finPc = "returned"
  /\ Len(completeCalls) >= 2
  /\ FailedCalls # {}
  /\ finErr = CompleteError(completeCalls[Len(completeCalls)].key)

\* C7: when no completion call fails, Finish has issued exactly one call per
\* key of the registry, with status success and the session id stored under
\* the key; completion calls are issued only after s.done is closed.
C7_OneCompletionPerKey ==
  /\ (completeCalls # << >>) => done
  /\ (finPc = "returned" /\ finErr = Nil) =>
       /\ Len(completeCalls) = Cardinality(DOMAIN syncSessions)
       /\ \A k \in DOMAIN syncSessions : Cardinality(CallsFor(k)) = 1
       /\ \A i \in 1..Len(completeCalls) :
            /\ completeCalls[i].key \in DOMAIN syncSessions
            /\ completeCalls[i].status = "STATUS_SUCCESS"
            /\ completeCalls[i].sessionId = syncSessions[completeCalls[i].key].sessionId
            /\ completeCalls[i].ok

C7_Witness ==
  /\ finPc = "returned"
  /\ finErr = Nil
  /\ Len(completeCalls) >= 2
  /\ \E i, j \in 1..Len(completeCalls) :
       completeCalls[i].sessionId # completeCalls[j].sessionId

\* Number of occurrences of r in the work queue.
InQueue(r) == Cardinality({ i \in 1..Len(workQueue) : workQueue[i] = r })

C9_EveryLookupResolves ==
  \A r \in InStage({"dequeued", "publishing", "resolved"}) :
    /\ getSession(syncSessions, pkgs[r].path).ok
    /\ pkgs[r].outcome # "sessionNotFound"

\* C10: whenever the wildcard entry is present, getSession returns it for
\* every key; the entry stays present, and an addKeyedSession for a manifest
\* path changes the result of no lookup.
C10_WildcardSupersedes ==
  /\ [](HasWildcard =>
          \A k \in Keys :
            getSession(syncSessions, k) = [ok |-> TRUE, session |-> syncSessions[Wildcard]])
  /\ [][HasWildcard =>
          /\ HasWildcard'
          /\ \A k \in Keys :
               CallGetSession(k) =>
                 (lookup'.ok /\ lookup'.session = syncSessions[Wildcard])
          /\ (\E k \in Manifests, s \in Sessions : CallAddKeyedSession(k, s)) =>
               \A k2 \in Keys :
                 getSession(syncSessions', k2) = getSession(syncSessions, k2)]_vars

C10_Witness ==
  /\ HasWildcard
  /\ lookup.key \in Manifests
  /\ lookup.key \in DOMAIN syncSessions
  /\ syncSessions[lookup.key] # syncSessions[Wildcard]
  /\ lookup.ok
  /\ lookup.session = syncSessions[Wildcard]

\* C11: with no wildcard entry, getSession(k) succeeds exactly for the keys
\* that addKeyedSession installed, returns the session of the last
\* addKeyedSession(k, ...) call, and fails ("session not found") for every
\* other key; an install under k leaves the result for the other keys as it
\* was, and a key gets an entry only by an install under that key.
C11_ExactKeyOrNotFound ==
  /\ [](~HasWildcard =>
          \A k \in Keys :
            getSession(syncSessions, k) =
              IF k \in DOMAIN syncSessions
              THEN [ok |-> TRUE, session |-> syncSessions[k]]
              ELSE [ok |-> FALSE, session |-> NoSession])
  /\ [](~HasWildcard /\ lookup.key # None =>
          (lookup.ok => lookup.key \in DOMAIN syncSessions))
  /\ [][\A k \in Manifests, s \in Sessions :
          (~HasWildcard /\ CallAddKeyedSession(k, s)) =>
            /\ getSession(syncSessions', k) = [ok |-> TRUE, session |-> s]
            /\ \A k2 \in Keys \ {k} :
                 getSession(syncSessions', k2) = getSession(syncSessions, k2)]_vars
  /\ [][\A k \in Keys :
          (k \notin DOMAIN syncSessions /\ k \in DOMAIN syncSessions') =>
            \/ \E s \in Sessions : CallAddKeyedSession(k, s)
            \/ k = Wildcard /\ \E s \in Sessions : CallAddPrimarySession(s)]_vars

C11_Witness ==
  /\ ~HasWildcard
  /\ lookup.key = "m1"
  /\ ~lookup.ok
  /\ "m1" \notin DOMAIN syncSessions
  /\ "m2" \in DOMAIN syncSessions
  /\ syncSessions["m2"] # SessionOf("m2")

ErrorOutcomes == {"sessionNotFound", "publishFailed"}

\* C12: a processing error ends no worker and reaches no caller: the step in
\* which a package fails leaves the callers of AddManifest and the result of
\* Finish untouched and returns its worker to the select; the number of
\* workers launched never changes and none has returned while s.done is open.
C12_ErrorsStayInWorker ==
  /\ [](~done => exited = 0)
  /\ [][workers' = workers]_vars
  /\ [][\A r \in 1..Len(pkgs) :
          (pkgs[r].outcome = None /\ pkgs'[r].outcome \in ErrorOutcomes) =>
            /\ exited' = exited
            /\ caller' = caller
            /\ finErr' = finErr
            /\ IdleWorkers' = IdleWorkers + 1]_vars

C12_Witness ==
  /\ workers = 1
  /\ ~done
  /\ Len(pkgs) >= 2
  /\ pkgs[1].outcome \in ErrorOutcomes
  /\ pkgs[2].deq = 1

\* C13: wg.Done is called exactly once for every package a worker received,
\* whatever the outcome: the number of Done calls is the number of resolved
\* packages, each step that resolves a package makes one Done call and no
\* other step makes any, a resolved package is never processed again, and a
\* package whose lookup failed had no publish call.
C13_OneDonePerRecord ==
  /\ [](decs = Cardinality(InStage({"resolved"})))
  /\ [](\A r \in InStage({"resolved"}) :
          /\ pkgs[r].outcome \in ErrorOutcomes \cup {"published"}
          /\ pkgs[r].deq = 1
          /\ (pkgs[r].outcome = "sessionNotFound") = (pkgs[r].pub = 0))
  /\ [](\A r \in InStage({"added", "queued", "dequeued", "publishing"}) :
          pkgs[r].outcome = None)
  /\ [][/\ decs' - decs =
            Cardinality({ r \in 1..Len(pkgs) : ~Resolved(r) /\ pkgs'[r].stage = "resolved" })
        /\ decs' - decs \in {0, 1}
        /\ pending' - pending = (incs' - incs) - (decs' - decs)
        /\ \A r \in 1..Len(pkgs) : Resolved(r) => pkgs'[r] = pkgs[r]]_vars

C13_Witness ==
  /\ decs = 2
  /\ \E r1, r2 \in 1..Len(pkgs) :
       /\ pkgs[r1].outcome = "sessionNotFound"
       /\ pkgs[r1].pub = 0
       /\ pkgs[r2].outcome = "publishFailed"

\* C14: in every reachable state the WaitGroup counter is >= 0 and equals
\* the number of packages added but not yet sent, plus the length of the
\* work queue, plus the number of packages held by workers.
C14_PendingCountsAccepted ==
  /\ pending >= 0
  /\ pending = Cardinality(InStage({"added"})) + Len(workQueue)
                + Cardinality(InStage({"dequeued", "publishing"}))
  /\ pending = incs - decs

C14_Witness ==
  /\ pending = 2
  /\ Cardinality(InStage({"added"})) = 1
  /\ Cardinality(InStage({"dequeued", "publishing"})) = 1
  /\ decs = 0

\* C15: queuePackage increments the counter before it sends (a send adds a
\* package already counted and changes no counter); the send is possible
\* exactly when the queue holds fewer packages than its capacity, so a caller
\* waits in the send only while the queue is full; the queue never holds
\* more than its capacity nor more than the counter.
C15_SubmitBlocksOnlyWhenFull ==
  /\ [](Len(workQueue) <= QueueCap /\ Len(workQueue) <= pending)
  /\ [](\A c \in Callers :
          (caller[c].pc = "send" /\ ~panicked) =>
            /\ pkgs[caller[c].rec].stage = "added"
            /\ (ENABLED QueuePackageSend(c)) = (Len(workQueue) < QueueCap))
  /\ [][Len(workQueue') > Len(workQueue) =>
          /\ pending' = pending
          /\ incs' = incs
          /\ pkgs[workQueue'[Len(workQueue')]].stage = "added"
          /\ \E c \in Callers : caller[c].pc = "send" /\ caller'[c].pc = "enum"]_vars
  /\ [][incs' > incs =>
          /\ workQueue' = workQueue
          /\ pending' = pending + 1
          /\ Len(pkgs') = Len(pkgs) + 1]_vars

C15_Witness ==
  /\ \E c \in Callers : caller[c].pc = "send" /\ ~ENABLED QueuePackageSend(c)
  /\ ~panicked
  /\ Len(workQueue) = QueueCap
  /\ pending = QueueCap + 1

Busy == InStage({"dequeued", "publishing"})

\* C16: under sequential use, once s.done is closed every worker of the pool
\* returns; a worker returns only from the select, so the workers that hold
\* a package never exceed the workers still running, and every package a
\* worker has received is resolved.
C16_BroadcastShutdown ==
  /\ done ~> (exited = workers)
  /\ [](exited <= workers /\ Cardinality(Busy) <= workers - exited)
  /\ [][exited' > exited => (done /\ pkgs' = pkgs /\ exited' = exited + 1)]_vars
  /\ \A r \in 1..MaxRecords :
       (r <= Len(pkgs) /\ r \in Busy) ~> (r <= Len(pkgs) /\ Resolved(r))

C16_Witness ==
  /\ done
  /\ workers = syncReporterDefaultWorkerCount
  /\ exited = workers
  /\ Len(pkgs) > QueueCap
  /\ \A r \in 1..Len(pkgs) : Resolved(r)

\* C17: every publish call made for a package carries the session id and
\* goes through the client of the session getSession returns for the
\* package's manifest path: the wildcard session when installed, else the
\* session stored under that path, never the session of another path.
C17_RoutedByManifestPath ==
  \A r \in 1..Len(pkgs) :
    pkgs[r].pub = 1 =>
      LET res == getSession(syncSessions, pkgs[r].path)
          own == IF HasWildcard THEN Wildcard ELSE pkgs[r].path
      IN /\ res.ok
         /\ pkgs[r].sessionId = res.session.sessionId
         /\ pkgs[r].client = res.session.toolServiceClient
         /\ own \in DOMAIN syncSessions
         /\ pkgs[r].sessionId = syncSessions[own].sessionId
         /\ pkgs[r].client = syncSessions[own].toolServiceClient
         /\ ~HasWildcard =>
              \A m \in DOMAIN syncSessions \ {pkgs[r].path} :
                /\ pkgs[r].sessionId # syncSessions[m].sessionId
                /\ pkgs[r].client # syncSessions[m].toolServiceClient

C17_Witness ==
  /\ ~HasWildcard
  /\ \E r1, r2 \in 1..Len(pkgs) :
       /\ pkgs[r1].path # pkgs[r2].path
       /\ pkgs[r1].pub = 1
       /\ pkgs[r2].pub = 1
       /\ pkgs[r1].sessionId # pkgs[r2].sessionId

\* C18 as stated: in every interleaving, no worker returns on the shutdown
\* signal while the work queue holds a package, and no worker that returned
\* receives a package.
C18_ExitOnlyWhenDrained ==
  /\ [][exited' > exited => workQueue = << >>]_vars
  /\ [](Cardinality(Busy) <= workers - exited)

\* C18 as amended: a worker returns on the shutdown signal with the work
\* queue empty provided no submit overlapped or followed the call of Finish;
\* in every interleaving a worker returns only after s.done is closed and a
\* worker that returned receives no package.
C18_ExitOnlyWhenDrainedSeq ==
  /\ [][(exited' > exited /\ ~lateSubmit) =>
          (workQueue = << >> /\ Unresolved = {})]_vars
  /\ [][exited' > exited => done]_vars
  /\ [][\A r \in 1..Len(pkgs) :
          (pkgs[r].deq = 0 /\ pkgs'[r].deq = 1) =>
            (IdleWorkers > 0 /\ exited' = exited)]_vars
  /\ [](Cardinality(Busy) + exited <= workers)

C18_Witness ==
  /\ ~lateSubmit
  /\ exited >= 1
  /\ exited < workers
  /\ Len(pkgs) > QueueCap
  /\ workQueue = << >>
  /\ finPc = "forEach"

\* C19: startWorkers launches WorkerCount workers for a positive
\* WorkerCount and syncReporterDefaultWorkerCount (10) for WorkerCount 0; the
\* number launched never changes, none returns before s.done is closed, and
\* the packages held by workers never exceed the workers running.
C19_FixedPoolSize ==
  /\ [](config.WorkerCount > 0 => workers = config.WorkerCount)
  /\ [](config.WorkerCount = 0 => workers = 10)
  /\ [][workers' = workers /\ config' = config]_vars
  /\ [](~done => exited = 0)
  /\ [](Cardinality(Busy) <= workers - exited)

C19_Witness ==
  /\ config.WorkerCount = 1
  /\ workers = 1
  /\ Cardinality(Busy) = 1
  /\ workQueue # << >>
  /\ ~done

\* The lookup at the head of syncPackage succeeds for pkg.
SessionFound == Wildcard \in DOMAIN syncSessions \/ pkg.Path \in DOMAIN syncSessions

\* The vulnerabilities of pkg, none when a pointer on the way is nil.
InputVulnerabilities ==
  IF Len(pkg.Insights) = 0 THEN << >>
  ELSE IF Len(pkg.Insights[1].Vulnerabilities) = 0 THEN << >>
       ELSE pkg.Insights[1].Vulnerabilities[1]

StartsCVE(str) ==
  Len(str) >= 4 /\ str[1] = "C" /\ str[2] = "V" /\ str[3] = "E" /\ str[4] = "-"
StartsOSV(str) ==
  Len(str) >= 4 /\ str[1] = "O" /\ str[2] = "S" /\ str[3] = "V" /\ str[4] = "-"

\* C20: the list of vulnerabilities of the request has one entry per
\* vulnerability of the package, in order; an entry keeps the identifier and
\* the summary as they are (the empty string when absent); its type is CVE
\* exactly when the identifier starts with "CVE-", OSV exactly when it starts
\* with "OSV-", unspecified otherwise.
C20_VulnerabilityTranslation ==
  LET in == InputVulnerabilities
      out == req.Vulnerabilities
  IN /\ Len(out) <= Len(in)
     /\ (trPc \in {"projects", "licenses", "publish", "returned"} /\ SessionFound)
          => Len(out) = Len(in)
     /\ \A i \in 1..Len(out) :
          /\ out[i].Id.Value = (IF Len(in[i].Id) = 0 THEN << >> ELSE in[i].Id[1])
          /\ out[i].Summary = (IF Len(in[i].Summary) = 0 THEN << >> ELSE in[i].Summary[1])
          /\ (out[i].Id.Type = VULNERABILITY_IDENTIFIER_TYPE_CVE) = StartsCVE(out[i].Id.Value)
          /\ (out[i].Id.Type = VULNERABILITY_IDENTIFIER_TYPE_OSV) = StartsOSV(out[i].Id.Value)
          /\ (out[i].Id.Type = VULNERABILITY_IDENTIFIER_TYPE_UNSPECIFIED) =
               (~StartsCVE(out[i].Id.Value) /\ ~StartsOSV(out[i].Id.Value))

C20_Witness ==
  /\ trPc = "returned"
  /\ Len(req.Vulnerabilities) = 2
  /\ req.Vulnerabilities[1].Id = [Value |-> << "C", "V", "E", "-", "1" >>,
                                   Type |-> VULNERABILITY_IDENTIFIER_TYPE_CVE]
  /\ req.Vulnerabilities[1].Summary = << "s", "u", "m" >>
  /\ req.Vulnerabilities[2].Id = [Value |-> << "c", "v", "e", "-", "1" >>,
                                   Type |-> VULNERABILITY_IDENTIFIER_TYPE_UNSPECIFIED]

\* The lists of pkg, empty when a pointer on the way is nil.
InputList(field) ==
  IF Len(pkg.Insights) = 0 THEN << >>
  ELSE IF Len(pkg.Insights[1][field]) = 0 THEN << >>
       ELSE pkg.Insights[1][field][1]

\* C21: a package whose session is found is published once whatever data is
\* absent: no request is sent before the end of the construction and exactly
\* one afterwards; in it the four lists are non-nil, each list has one entry
\* per element of its input and none when the input is absent or, for the
\* dependencies, when their enumeration failed; session id, manifest path,
\* name and version are those of the package; and syncPackage returns nil
\* or the publish error, never the error of the dependencies.
C21_AbsentDataStillPublished ==
  /\ Len(sent) <= 1
  /\ (trPc \in {"publish", "returned"} /\ SessionFound) =>
       /\ Len(sent) = 1
       /\ sent[1].NonNil = {"Dependencies", "Vulnerabilities", "ProjectInsights", "Licenses"}
       /\ sent[1].ToolSessionId \in { syncSessions[k].sessionId : k \in DOMAIN syncSessions }
       /\ sent[1].Namespace = pkg.Path
       /\ sent[1].Name = pkg.Name
       /\ sent[1].Version = pkg.Version
       /\ Len(sent[1].Vulnerabilities) = Len(InputList("Vulnerabilities"))
       /\ Len(sent[1].ProjectInsights) = Len(InputList("Projects"))
       /\ Len(sent[1].Licenses) = Len(InputList("Licenses"))
       /\ \A i \in 1..Len(sent[1].Licenses) :
            sent[1].Licenses[i] = [LicenseId |-> InputList("Licenses")[i],
                                   Name |-> InputList("Licenses")[i]]
       /\ Len(sent[1].Dependencies) =
            (IF pkg.Dependencies.err THEN 0 ELSE Len(pkg.Dependencies.list))
  /\ (trPc \notin {"publish", "returned"}) => sent = << >>
  /\ (trPc = "returned" /\ SessionFound) => ret \in {Nil, PublishError}
  /\ (trPc # "returned") => ret = Nil

C21_Witness ==
  /\ trPc = "returned"
  /\ ret = Nil
  /\ pkg.Dependencies.err
  /\ Len(pkg.Insights) = 1
  /\ Len(pkg.Insights[1].Vulnerabilities) = 0
  /\ Len(pkg.Insights[1].Projects) = 0
  /\ Len(sent) = 1
  /\ Len(sent[1].Licenses) = 2
  /\ sent[1].Dependencies = << >>
  /\ sent[1].Vulnerabilities = << >>

\* C22: the list of project insights of the request has one entry per
\* project of the package, in order; the source type of an entry is GITHUB
\* for the name "GITHUB", GITLAB for "GITLAB", unspecified for any other or
\* absent name; stars, forks and issue total are set (non-nil) and equal the
\* upstream value, 0 when that is absent.
C22_ProjectTranslation ==
  LET in == InputList("Projects")
      out == req.ProjectInsights
      val(ptr) == IF Len(ptr) = 0 THEN 0 ELSE ptr[1]
      name(ptr) == IF Len(ptr) = 0 THEN << >> ELSE ptr[1]
  IN /\ Len(out) <= Len(in)
     /\ (trPc \in {"licenses", "publish", "returned"} /\ SessionFound)
          => Len(out) = Len(in)
     /\ \A i \in 1..Len(out) :
          /\ (out[i].Project.Type = PROJECT_SOURCE_TYPE_GITHUB) =
               (name(in[i].Type) = << "G", "I", "T", "H", "U", "B" >>)
          /\ (out[i].Project.Type = PROJECT_SOURCE_TYPE_GITLAB) =
               (name(in[i].Type) = << "G", "I", "T", "L", "A", "B" >>)
          /\ out[i].Project.Type \in {PROJECT_SOURCE_TYPE_GITHUB, PROJECT_SOURCE_TYPE_GITLAB,
                                       PROJECT_SOURCE_TYPE_UNSPECIFIED}
          /\ out[i].Project.Name = name(in[i].Name)
          /\ out[i].Project.Url = name(in[i].Link)
          /\ Len(out[i].Stars) = 1 /\ out[i].Stars[1] = val(in[i].Stars)
          /\ Len(out[i].Forks) = 1 /\ out[i].Forks[1] = val(in[i].Forks)
          /\ Len(out[i].Issues) = 1 /\ out[i].Issues[1].Total = val(in[i].Issues)
     /\ \A i \in 1..Len(sent) : sent[i].ProjectInsights = out

C22_Witness ==
  /\ trPc = "returned"
  /\ Len(sent) = 1
  /\ Len(sent[1].ProjectInsights) = 2
  /\ sent[1].ProjectInsights[1].Project.Type = PROJECT_SOURCE_TYPE_GITHUB
  /\ sent[1].ProjectInsights[1].Stars = Ptr(7)
  /\ sent[1].ProjectInsights[2].Project.Type = PROJECT_SOURCE_TYPE_UNSPECIFIED
  /\ Len(pkg.Insights[1].Projects[1][2].Stars) = 0
  /\ sent[1].ProjectInsights[2].Stars = Ptr(0)
  /\ sent[1].ProjectInsights[2].Issues = Ptr([Total |-> 0])

\* C24 as stated: a second call of Finish, made after the first returned and
\* with no submit in between, does not crash: the process has not panicked,
\* and the call returns with the counter at 0.
C24_SecondFinishSafe ==
  (finCalls = 2 /\ ~lateSubmit) =>
    /\ ~panicked
    /\ finPc # "panic"
    /\ (finPc = "returned" => pending = 0)

\* C25 as stated: whatever the configured WorkerCount (negative values
\* included), enough workers are started for a call of Finish that follows
\* the submits to return.
C25_AnyCountFinishReturns ==
  (finPc \in {"wait", "blocked"}) ~> (finPc = "returned" /\ workers >= 1)

\* C26 as stated: a call addKeyedSession(k, ...), for any string k, leaves
\* the result of getSession(k2) as it was for every key k2 other than k.
C26_AddKeyedTouchesOneKey ==
  [][\A k \in Keys, s \in Sessions :
       CallAddKeyedSession(k, s) =>
         \A k2 \in Keys \ {k} :
           getSession(syncSessions', k2) = getSession(syncSessions, k2)]_vars

\* C23: the lock of the registry is free whenever no operation is running
\* (every return path has released it), a writer excludes every other
\* holder, a reader is admitted whenever no writer holds or waits for the
\* lock (also when other readers hold it), no goroutine asks for the lock
\* while it holds it, and every operation begun completes.
C23_RegistryDeadlockFree ==
  /\ [](mu.writer # "none" => mu.readers = {})
  /\ [](\A g \in Goroutines :
          /\ (gor[g].pc \in {"idle", "lock", "lockwait"}) =>
               (g \notin mu.readers /\ mu.writer # g)
          /\ (gor[g].pc \in {"body", "unlock"}) =>
               (IF gor[g].op \in WriteOps THEN mu.writer = g ELSE g \in mu.readers)
          /\ (g \in mu.pending) = (gor[g].pc = "lockwait")
          /\ (gor[g].pc = "lock" /\ gor[g].op \in ReadOps /\ mu.writer = "none"
                /\ mu.pending = {}) => ENABLED RLock(g))
  /\ []((\A g \in Goroutines : gor[g].pc = "idle") => mu = FreeMutex)
  /\ \A g \in Goroutines : (gor[g].pc # "idle") ~> (gor[g].pc = "idle")

C23_Witness ==
  /\ Cardinality(mu.readers) = 2
  /\ mu.pending # {}
  /\ \E g \in mu.readers :
       gor[g].op = "forEach" /\ gor[g].pc = "unlock" /\ ~gor[g].ok
  /\ \E g \in mu.readers : gor[g].op = "getSession"

\* The editors of a call in the order applyEditors is to run them.
AllEditors == RequestEditors \o httpCall.additionalEditors
FailedEditors == { i \in 1..Len(httpCall.applied) : httpCall.applied[i].fails }

\* C27: the editors that have run are an initial part of the client's
\* editors followed by the editors of the call, each in its order; none runs
\* after one that failed; when one failed the method returns its error and
\* Do is not called; Do is called, once, only after every editor ran and
\* none failed.
C27_EditorsInOrderStopAtError ==
  /\ Len(httpCall.applied) <= Len(AllEditors)
  /\ \A i \in 1..Len(httpCall.applied) : httpCall.applied[i] = AllEditors[i]
  /\ \A i \in FailedEditors : i = Len(httpCall.applied)
  /\ (FailedEditors # {}) =>
       /\ httpCall.pc = "returned"
       /\ httpCall.sent = 0
       /\ httpCall.err = << "editor", httpCall.applied[Len(httpCall.applied)].id >>
  /\ httpCall.sent <= 1
  /\ (httpCall.sent = 1) =>
       (httpCall.applied = AllEditors /\ \A i \in 1..Len(AllEditors) : ~AllEditors[i].fails)
  /\ (httpCall.pc = "returned" /\ httpCall.err \in { << >>, << "transport" >> }) =>
       httpCall.sent = 1

C27_Witness ==
  /\ httpCall.pc = "returned"
  /\ Len(RequestEditors) = 2
  /\ Len(httpCall.additionalEditors) = 2
  /\ RequestEditors[1] # RequestEditors[2]
  /\ Len(httpCall.applied) = 3
  /\ httpCall.applied[3].fails
  /\ httpCall.err = << "editor", httpCall.additionalEditors[1].id >>
  /\ httpCall.sent = 0

====
